---- MODULE Spec2Model ----
(***************************************************************************)
(* cargo-audit: the `cargo audit` subcommand (src/commands/audit.rs).      *)
(*                                                                         *)
(* The model has two layers.                                               *)
(*  - AuditCommand::override_config and AuditCommand::run are translated   *)
(*    statement by statement from src/commands/audit.rs.                   *)
(*  - The pipeline behind Auditor::audit (advisory database, lockfile      *)
(*    parser, matcher, report builder) lives in files that are not part of *)
(*    the source tree at hand; it is modelled from sections 3 to 7 of the  *)
(*    specification.                                                       *)
(*                                                                         *)
(* Option<T> is a sequence of length at most one: None is <<>> and Some(x) *)
(* is <<x>>.                                                               *)
(***************************************************************************)
EXTENDS Integers, Sequences, FiniteSets, TLC

(***************************************************************************)
(* Bounds of the model.                                                    *)
(***************************************************************************)
MaxCliIgnore == 2
MaxFileIgnore == 2

None == <<>>
Some(x) == <<x>>

Range(s) == {s[i] : i \in 1..Len(s)}

SeqsUpTo(S, n) == UNION {[1..k -> S] : k \in 0..n}

IsInjective(s) == \A i, j \in 1..Len(s) : s[i] = s[j] => i = j

(***************************************************************************)
(* Values of the command line and of the configuration file.               *)
(***************************************************************************)
CARGO_LOCK_FILE == "Cargo.lock"

\* Strings that can follow --ignore.  The last one has the RUSTSEC prefix
\* without a year and a number, and advisory::Id::from_str rejects it.
WellFormedIdStrings == {"RUSTSEC-2020-0001", "RUSTSEC-2020-0002"}
MalformedIdStrings == {"RUSTSEC-bogus"}
CliIdStrings == WellFormedIdStrings \cup MalformedIdStrings

\* An advisory::Id owns its string.
Id(s) == [string |-> s]

\* advisory_id.parse(): Result<advisory::Id, Error>
ParseId(s) ==
  IF s \in MalformedIdStrings
  THEN [ok |-> FALSE, id |-> Id("")]
  ELSE [ok |-> TRUE, id |-> Id(s)]

\* db.into(): String -> PathBuf
PathBufFrom(s) == [path |-> s]

\* OutputFormat
Terminal == "Terminal"
Json == "Json"

\* AuditCommand::default()
DefaultCommand ==
  [help |-> FALSE, version |-> FALSE, color |-> None, db |-> None,
   file |-> None, ignore |-> <<>>, no_fetch |-> FALSE, stale |-> FALSE,
   target_arch |-> None, target_os |-> None, url |-> None, quiet |-> FALSE,
   output_json |-> FALSE]

\* AuditConfig, as override_config reads and writes it.
DefaultConfig ==
  [color |-> None, advisory_db_path |-> None, advisory_db_url |-> None,
   ignore |-> <<>>, no_fetch |-> FALSE, allow_stale |-> FALSE,
   target_arch |-> None, target_os |-> None, quiet |-> FALSE,
   output_format |-> Terminal]

(***************************************************************************)
(* AuditCommand::override_config, one operator per statement.              *)
(***************************************************************************)

\* if let Some(color) = &self.color { config.color = Some(color.clone()); }
OverrideColor(self, config) ==
  IF self.color # None
  THEN [config EXCEPT !.color = Some(self.color[1])]
  ELSE config

\* if let Some(db) = &self.db { config.advisory_db_path = Some(db.into()); }
OverrideDb(self, config) ==
  IF self.db # None
  THEN [config EXCEPT !.advisory_db_path = Some(PathBufFrom(self.db[1]))]
  ELSE config

\* exit(1) after status_err! when an --ignore value does not parse
IgnoreParseExitCode == 1

\* A loop over self.ignore that drops the values that do not parse.
RECURSIVE PushIgnoresSkipUnparsable(_, _)
PushIgnoresSkipUnparsable(ignore, strs) ==
  IF strs = <<>>
  THEN [ok |-> TRUE, ignore |-> ignore, bad |-> None, exit |-> None]
  ELSE LET r == ParseId(Head(strs))
       IN  IF r.ok
           THEN PushIgnoresSkipUnparsable(Append(ignore, r.id), Tail(strs))
           ELSE PushIgnoresSkipUnparsable(ignore, Tail(strs))

\* A loop over self.ignore that exits with code 0 on a value that does not parse.
RECURSIVE PushIgnoresExitZero(_, _)
PushIgnoresExitZero(ignore, strs) ==
  IF strs = <<>>
  THEN [ok |-> TRUE, ignore |-> ignore, bad |-> None, exit |-> None]
  ELSE LET r == ParseId(Head(strs))
       IN  IF r.ok
           THEN PushIgnoresExitZero(Append(ignore, r.id), Tail(strs))
           ELSE [ok |-> FALSE, ignore |-> ignore, bad |-> Some(Head(strs)),
                 exit |-> Some(0)]

\* A loop that lets the command line's ids replace the file's.
RECURSIVE PushIgnoresReplace(_, _)
PushIgnoresReplace(ignore, strs) ==
  IF strs = <<>>
  THEN [ok |-> TRUE, ignore |-> ignore, bad |-> None, exit |-> None]
  ELSE LET r == ParseId(Head(strs))
       IN  IF r.ok
           THEN LET rest == PushIgnoresReplace(<<>>, Tail(strs))
                IN  [rest EXCEPT !.ignore = <<r.id>> \o rest.ignore]
           ELSE [ok |-> FALSE, ignore |-> ignore, bad |-> Some(Head(strs)),
                 exit |-> Some(IgnoreParseExitCode)]

\* for advisory_id in &self.ignore { config.ignore.push(advisory_id.parse()
\*   .unwrap_or_else(|e| { status_err!(..); exit(1); })); }
\* The result is the vector after the loop, or the value that failed to parse
\* and the code the process exits with.
RECURSIVE PushIgnores(_, _)
PushIgnores(ignore, strs) ==
  IF strs = <<>>
  THEN [ok |-> TRUE, ignore |-> ignore, bad |-> None, exit |-> None]
  ELSE LET r == ParseId(Head(strs))
       IN  IF r.ok
           THEN PushIgnores(Append(ignore, r.id), Tail(strs))
           ELSE [ok |-> FALSE, ignore |-> ignore, bad |-> Some(Head(strs)),
                 exit |-> Some(IgnoreParseExitCode)]

\* config.no_fetch = self.no_fetch;
MergeNoFetchAssign(self, config) ==
  [config EXCEPT !.no_fetch = self.no_fetch]

\* config.no_fetch |= self.no_fetch;
MergeNoFetch(self, config) ==
  [config EXCEPT !.no_fetch = config.no_fetch \/ self.no_fetch]

\* config.allow_stale |= self.no_fetch;
MergeAllowStaleFromNoFetch(self, config) ==
  [config EXCEPT !.allow_stale = config.allow_stale \/ self.no_fetch]

\* config.allow_stale |= self.stale;
MergeAllowStale(self, config) ==
  [config EXCEPT !.allow_stale = config.allow_stale \/ self.stale]

\* config.target_arch = self.target_arch;
OverrideTargetArchAlways(self, config) ==
  [config EXCEPT !.target_arch = self.target_arch]

\* if let Some(target_arch) = self.target_arch { config.target_arch = Some(target_arch); }
OverrideTargetArch(self, config) ==
  IF self.target_arch # None
  THEN [config EXCEPT !.target_arch = Some(self.target_arch[1])]
  ELSE config

\* if let Some(target_os) = self.target_os { config.target_os = Some(target_os); }
OverrideTargetOs(self, config) ==
  IF self.target_os # None
  THEN [config EXCEPT !.target_os = Some(self.target_os[1])]
  ELSE config

\* config.advisory_db_url.get_or_insert(url.clone())
OverrideUrlIfUnset(self, config) ==
  IF self.url # None /\ config.advisory_db_url = None
  THEN [config EXCEPT !.advisory_db_url = Some(self.url[1])]
  ELSE config

\* if let Some(url) = &self.url { config.advisory_db_url = Some(url.clone()) }
OverrideUrl(self, config) ==
  IF self.url # None
  THEN [config EXCEPT !.advisory_db_url = Some(self.url[1])]
  ELSE config

\* config.quiet &= self.quiet;
MergeQuietAnd(self, config) ==
  [config EXCEPT !.quiet = config.quiet /\ self.quiet]

\* config.quiet |= self.quiet;
MergeQuiet(self, config) ==
  [config EXCEPT !.quiet = config.quiet \/ self.quiet]

\* config.output_format = if self.output_json { Json } else { Terminal };
OverrideOutputFormatBoth(self, config) ==
  [config EXCEPT !.output_format = IF self.output_json THEN Json ELSE Terminal]

\* if self.output_json { config.output_format = OutputFormat::Json; }
OverrideOutputFormat(self, config) ==
  IF self.output_json
  THEN [config EXCEPT !.output_format = Json]
  ELSE config

\* fn override_config(&self, mut config: AuditConfig)
\*   -> Result<AuditConfig, FrameworkError>
\* exit is Some(code) when the process exits inside the loop over self.ignore;
\* otherwise config is Some(the configuration returned in Ok).
OverrideConfig(self, config) ==
  LET c1 == OverrideColor(self, config)
      c2 == OverrideDb(self, c1)
      r  == PushIgnores(c2.ignore, self.ignore)
      c3 == [c2 EXCEPT !.ignore = r.ignore]
      c4 == MergeNoFetch(self, c3)
      c5 == MergeAllowStale(self, c4)
      c6 == OverrideTargetArch(self, c5)
      c7 == OverrideTargetOs(self, c6)
      c8 == OverrideUrl(self, c7)
      c9 == MergeQuiet(self, c8)
      c10 == OverrideOutputFormat(self, c9)
  IN  IF r.ok
      THEN [exit |-> None, bad |-> None, config |-> Some(c10)]
      ELSE [exit |-> r.exit, bad |-> r.bad, config |-> None]

(***************************************************************************)
(* Data model of the pipeline (specification, section 3).                  *)
(***************************************************************************)

\* Semantic versions are triples <<major, minor, patch>>.
VersionLess(v, w) ==
  \/ v[1] < w[1]
  \/ v[1] = w[1] /\ v[2] < w[2]
  \/ v[1] = w[1] /\ v[2] = w[2] /\ v[3] < w[3]

\* One bound of a range: each bound carries its own operator.
Satisfies(v, bound) ==
  CASE bound.op = ">=" -> ~VersionLess(v, bound.v)
    [] bound.op = ">"  -> VersionLess(bound.v, v)
    [] bound.op = "<=" -> ~VersionLess(bound.v, v)
    [] bound.op = "<"  -> VersionLess(v, bound.v)

\* A clause is a conjunction of bounds; a range is a set of clauses.
InClause(v, clause) == \A b \in clause : Satisfies(v, b)
InRanges(v, ranges) == \E clause \in ranges : InClause(v, clause)

\* AffectedRange membership: in the affected bounds and in no
\* unaffected/patched sub-range.
VersionAffected(v, range) ==
  InRanges(v, range.affected) /\ ~InRanges(v, range.unaffected)

Bound(op, v) == [op |-> op, v |-> v]
AllVersions == {{Bound(">=", <<0, 0, 0>>)}}

\* Dependency list of the lockfile under audit, in manifest order.
LockfileDependencies ==
  << [name |-> "foo", version |-> <<1, 2, 0>>],
     [name |-> "foo", version |-> <<1, 3, 0>>],
     [name |-> "bar", version |-> <<0, 5, 0>>] >>

Advisory(id, package, affected, unaffected, arch, os, withdrawn, category) ==
  [id |-> Id(id), package |-> package,
   affected |-> [affected |-> affected, unaffected |-> unaffected],
   arch_constraint |-> arch, os_constraint |-> os,
   withdrawn |-> withdrawn, category |-> category]

\* Entries of the advisory mirror.  RUSTSEC-2020-0008 has no affected bound
\* and is an invalid record.
MirrorEntries ==
  { Advisory("RUSTSEC-2020-0001", "foo",
             {{Bound(">=", <<1, 0, 0>>), Bound("<", <<1, 3, 0>>)}},
             {{Bound(">=", <<1, 3, 0>>)}}, None, None, None, "vulnerability"),
    Advisory("RUSTSEC-2020-0002", "foo",
             {{Bound(">=", <<1, 0, 0>>)}, {Bound(">", <<1, 1, 0>>)}},
             {{Bound(">=", <<1, 3, 0>>)}}, Some({"x86_64"}), None, None,
             "vulnerability"),
    Advisory("RUSTSEC-2020-0003", "bar",
             {{Bound("<", <<1, 0, 0>>)}}, {}, None, Some({"windows"}), None,
             "vulnerability"),
    Advisory("RUSTSEC-2020-0004", "foo", AllVersions, {}, None, None,
             Some("2020-06-01"), "vulnerability"),
    Advisory("RUSTSEC-2020-0005", "bar", AllVersions, {}, None, None, None,
             "unmaintained"),
    Advisory("RUSTSEC-2020-0006", "foo",
             {{Bound("<=", <<1, 3, 0>>)}}, {}, Some({"arm", "x86_64"}),
             Some({"linux"}), None, "vulnerability"),
    Advisory("RUSTSEC-2020-0007", "baz", AllVersions, {}, None, None, None,
             "vulnerability"),
    Advisory("RUSTSEC-2020-0008", "foo", {}, {}, None, None, None,
             "vulnerability") }

\* An advisory with no affected bound is invalid and rejected.
ValidRecord(a) == a.affected.affected # {}

\* What a mirror directory can hold: the corpus, the corpus with further
\* entries unreadable, or nothing that parses.
MirrorContents ==
  { MirrorEntries,
    {a \in MirrorEntries : a.package # "bar"},
    {a \in MirrorEntries : ~ValidRecord(a)} }

(***************************************************************************)
(* AdvisoryDatabase (section 4.1).                                         *)
(***************************************************************************)

\* Age threshold of the freshness check, in days.
StaleThresholdDays == 90

\* Ages, in days, that the HEAD commit of a mirror or of the remote can have.
MirrorAges == {30, 90, 120}

\* load_records: malformed entries are skipped.
LoadRecords(entries) == {a \in entries : ValidRecord(a)}

\* records_for(package_name)
RecordsFor(records, name) == {a \in records : a.package = name}

\* check_freshness(threshold, allow_stale)
IsStale(age, allow_stale) == age > StaleThresholdDays /\ ~allow_stale

(***************************************************************************)
(* VulnerabilityMatcher (section 4.3).                                     *)
(***************************************************************************)

\* A filter and a constraint are compatible when either is absent or the
\* constraint contains the filter value.
FilterCompatible(filter, constraint) ==
  filter = None \/ constraint = None \/ filter[1] \in constraint[1]

\* Step 2: the tests one candidate advisory goes through for one dependency.
Passes(d, a, ignore, arch_filter, os_filter) ==
  /\ a.withdrawn = None
  /\ a.id \notin ignore
  /\ FilterCompatible(arch_filter, a.arch_constraint)
  /\ FilterCompatible(os_filter, a.os_constraint)
  /\ VersionAffected(d.version, a.affected)

\* Steps 1 to 3: one Match per (dependency, advisory id).
FindMatches(dependencies, records, ignore, arch_filter, os_filter) ==
  { [dependency |-> d, advisory |-> a.id] :
      <<d, a>> \in { <<d, a>> \in Range(dependencies) \X records :
                       /\ a \in RecordsFor(records, d.name)
                       /\ Passes(d, a, ignore, arch_filter, os_filter) } }

\* Step 4: unmaintained/notice advisories are informational.
IsInformational(records, m) ==
  \E a \in records : a.id = m.advisory /\ a.category # "vulnerability"

BlockingMatches(records, ms) == {m \in ms : ~IsInformational(records, m)}
InformationalFindings(records, ms) == {m \in ms : IsInformational(records, m)}

(***************************************************************************)
(* ReportBuilder (section 4.4) and exit codes (section 6).                 *)
(***************************************************************************)
CleanExitCode == 0
VulnerabilitiesFoundExitCode == 1
FatalErrorExitCode == 1

\* exit_disposition(report)
ExitDisposition(report) ==
  IF report.vulnerabilities = {} THEN CleanExitCode
  ELSE VulnerabilitiesFoundExitCode

\* build(matches, informational)
BuildReport(blocking, informational) ==
  [vulnerabilities |-> blocking, warnings |-> informational,
   count |-> Cardinality(blocking)]

(***************************************************************************)
(* State.                                                                  *)
(***************************************************************************)
VARIABLES
  cmd,            \* the AuditCommand parsed from the command line
  file_config,    \* the AuditConfig loaded from the configuration file
  config,         \* Option: the application configuration, once merged
  pc,             \* position of the process
  exit_code,      \* Option: the code the process exited with
  error,          \* Option: the fatal error that ended the run
  mirror,         \* Option: age in days of the local mirror's HEAD commit
  steps,          \* operations performed so far
  lockfile_path,  \* Option: the path run() hands to Auditor::audit
  records,        \* advisory records loaded from the mirror
  matches,        \* Match values produced by the matcher
  report          \* Option: the report handed to the renderer

vars ==
  <<cmd, file_config, config, pc, exit_code, error, mirror, steps,
    lockfile_path, records, matches, report>>

(***************************************************************************)
(* Command lines and configuration files of the model.  Each family varies *)
(* one group of options and leaves the others at their defaults.           *)
(***************************************************************************)

\* --color, --db, --url, --json against the file's values
LocationCommands ==
  { [DefaultCommand EXCEPT !.color = c, !.db = d, !.url = u, !.output_json = j] :
      c \in {None, Some("always")}, d \in {None, Some("/cli/advisory-db")},
      u \in {None, Some("https://cli.example/db.git")}, j \in BOOLEAN }

LocationConfigs ==
  { [DefaultConfig EXCEPT !.color = c, !.advisory_db_path = d,
                          !.advisory_db_url = u, !.output_format = f] :
      c \in {None, Some("never"), Some("always")},
      d \in {None, Some(PathBufFrom("/file/advisory-db"))},
      u \in {None, Some("https://file.example/db.git")},
      f \in {Terminal, Json} }

\* --no-fetch, --stale, --quiet, --help, --version, --file
FlagCommands ==
  { [DefaultCommand EXCEPT !.no_fetch = n, !.stale = s, !.quiet = q,
                           !.help = h, !.version = v, !.file = f] :
      n \in BOOLEAN, s \in BOOLEAN, q \in BOOLEAN, h \in BOOLEAN,
      v \in BOOLEAN, f \in {None, Some("-"), Some("other/Cargo.lock")} }

FlagConfigs ==
  { [DefaultConfig EXCEPT !.no_fetch = n, !.allow_stale = s, !.quiet = q] :
      n \in BOOLEAN, s \in BOOLEAN, q \in BOOLEAN }

\* --ignore, --target-arch, --target-os
FileIgnoreIds ==
  {Id("RUSTSEC-2020-0001"), Id("RUSTSEC-2020-0005"), Id("RUSTSEC-2020-0006")}

FilterCommands ==
  { [DefaultCommand EXCEPT !.ignore = i, !.target_arch = a, !.target_os = o] :
      i \in SeqsUpTo(CliIdStrings, MaxCliIgnore),
      a \in {None, Some("x86_64"), Some("arm")},
      o \in {None, Some("linux"), Some("windows")} }

FilterConfigs ==
  { [DefaultConfig EXCEPT !.ignore = i, !.target_arch = a, !.target_os = o] :
      i \in {s \in SeqsUpTo(FileIgnoreIds, MaxFileIgnore) : IsInjective(s)},
      a \in {None, Some("arm"), Some("x86_64")},
      o \in {None, Some("windows"), Some("linux")} }

Init ==
  /\ \/ cmd \in LocationCommands /\ file_config \in LocationConfigs
     \/ cmd \in FlagCommands /\ file_config \in FlagConfigs
     \/ cmd \in FilterCommands /\ file_config \in FilterConfigs
  /\ mirror \in {None} \cup {Some(age) : age \in MirrorAges}
  /\ config = None
  /\ pc = "boot"
  /\ exit_code = None
  /\ error = None
  /\ steps = {}
  /\ lockfile_path = None
  /\ records = {}
  /\ matches = {}
  /\ report = None

(***************************************************************************)
(* Actions of src/commands/audit.rs.                                       *)
(***************************************************************************)

\* The framework hands the loaded configuration to override_config before it
\* runs the command; the result becomes app_config().
ProcessConfig ==
  /\ pc = "boot"
  /\ LET r == OverrideConfig(cmd, file_config)
     IN  IF r.exit # None
         THEN /\ pc' = "exited"
              /\ exit_code' = r.exit
              /\ error' = Some("ConfigurationError")
              /\ config' = config
         ELSE /\ pc' = "configured"
              /\ config' = r.config
              /\ UNCHANGED <<exit_code, error>>
  /\ UNCHANGED <<cmd, file_config, mirror, steps, lockfile_path, records,
                 matches, report>>

\* Self::print_usage_and_exit(&[]) is the framework's: it never returns, and the
\* code it exits with is not fixed by this file.
UsageExitCodes == {0, 1}

\* exit(0) after printing the version
VersionExitCode == 0

\* self.file.as_ref().map(PathBuf::from)
\*   .unwrap_or_else(|| PathBuf::from(CARGO_LOCK_FILE))
LockfilePath(self) ==
  IF self.file # None THEN PathBufFrom(self.file[1])
  ELSE PathBufFrom(CARGO_LOCK_FILE)

\* fn run(&self), up to the call of Auditor::audit
Run ==
  /\ pc = "configured"
  /\ \/ /\ cmd.help
        /\ \E code \in UsageExitCodes : exit_code' = Some(code)
        /\ pc' = "exited"
        /\ UNCHANGED lockfile_path
     \/ /\ ~cmd.help /\ cmd.version
        /\ exit_code' = Some(VersionExitCode)
        /\ pc' = "exited"
        /\ UNCHANGED lockfile_path
     \/ /\ ~cmd.help /\ ~cmd.version
        /\ lockfile_path' = Some(LockfilePath(cmd))
        /\ pc' = "open"
        /\ UNCHANGED exit_code
  /\ UNCHANGED <<cmd, file_config, config, error, mirror, steps, records,
                 matches, report>>

(***************************************************************************)
(* Auditor::audit: the pipeline of sections 4 and 5,                       *)
(* fetch (if enabled) -> freshness -> load -> parse -> match -> report.    *)
(***************************************************************************)
Cfg == config[1]

\* A fatal condition short-circuits the pipeline.
Fail(e) ==
  /\ pc' = "exited"
  /\ error' = Some(e)
  /\ exit_code' = Some(FatalErrorExitCode)

\* open(path, url, fetch), with fetch = !config.no_fetch
OpenDatabase ==
  /\ pc = "open"
  /\ \/ /\ ~Cfg.no_fetch
        /\ Fail("Locked")
        /\ UNCHANGED <<mirror, steps>>
     \/ /\ ~Cfg.no_fetch
        /\ Fail("FetchFailed")
        /\ steps' = steps \cup {"network"}
        /\ UNCHANGED mirror
     \/ /\ ~Cfg.no_fetch
        /\ \E age \in MirrorAges : mirror' = Some(age)
        /\ steps' = steps \cup {"network", "mirror_write", "open"}
        /\ pc' = "freshness"
        /\ UNCHANGED <<error, exit_code>>
     \/ /\ Cfg.no_fetch
        /\ mirror = None
        /\ Fail("NotFound")
        /\ UNCHANGED <<mirror, steps>>
     \/ /\ Cfg.no_fetch
        /\ mirror # None
        /\ steps' = steps \cup {"open"}
        /\ pc' = "freshness"
        /\ UNCHANGED <<mirror, error, exit_code>>
  /\ UNCHANGED <<cmd, file_config, config, lockfile_path, records, matches,
                 report>>

\* check_freshness(threshold, allow_stale)
CheckFreshness ==
  /\ pc = "freshness"
  /\ steps' = steps \cup {"freshness"}
  /\ IF IsStale(mirror[1], Cfg.allow_stale)
     THEN Fail("Stale")
     ELSE pc' = "load" /\ UNCHANGED <<error, exit_code>>
  /\ UNCHANGED <<cmd, file_config, config, mirror, lockfile_path, records,
                 matches, report>>

\* load_records(): zero valid entries is Corrupt.
LoadDatabase ==
  /\ pc = "load"
  /\ steps' = steps \cup {"load"}
  /\ \E entries \in MirrorContents :
       IF LoadRecords(entries) = {}
       THEN Fail("Corrupt") /\ UNCHANGED records
       ELSE /\ records' = LoadRecords(entries)
            /\ pc' = "parse"
            /\ UNCHANGED <<error, exit_code>>
  /\ UNCHANGED <<cmd, file_config, config, mirror, lockfile_path, matches,
                 report>>

\* The sentinel path that selects standard input.
StdinPath == PathBufFrom("-")

\* parse(path_or_stdin)
ParseLockfile ==
  /\ pc = "parse"
  /\ \/ /\ lockfile_path[1] # StdinPath
        /\ Fail("LockfileNotFound")
        /\ UNCHANGED steps
     \/ /\ Fail("LockfileParseError")
        /\ UNCHANGED steps
     \/ /\ steps' = steps \cup {"lockfile_parse"}
        /\ pc' = "match"
        /\ UNCHANGED <<error, exit_code>>
  /\ UNCHANGED <<cmd, file_config, config, mirror, lockfile_path, records,
                 matches, report>>

\* The matcher, with the filters of the resolved configuration.
RunMatcher ==
  /\ pc = "match"
  /\ steps' = steps \cup {"match"}
  /\ matches' = FindMatches(LockfileDependencies, records, Range(Cfg.ignore),
                            Cfg.target_arch, Cfg.target_os)
  /\ pc' = "report"
  /\ UNCHANGED <<cmd, file_config, config, exit_code, error, mirror,
                 lockfile_path, records, report>>

\* build, then exit with the report's disposition.
EmitReport ==
  /\ pc = "report"
  /\ steps' = steps \cup {"report"}
  /\ LET r == BuildReport(BlockingMatches(records, matches),
                          InformationalFindings(records, matches))
     IN  /\ report' = Some(r)
         /\ exit_code' = Some(ExitDisposition(r))
  /\ pc' = "exited"
  /\ UNCHANGED <<cmd, file_config, config, error, mirror, lockfile_path,
                 records, matches>>

Next ==
  \/ ProcessConfig
  \/ Run
  \/ OpenDatabase
  \/ CheckFreshness
  \/ LoadDatabase
  \/ ParseLockfile
  \/ RunMatcher
  \/ EmitReport

Spec == Init /\ [][Next]_vars

(***************************************************************************)
(* Properties.                                                             *)
(***************************************************************************)

\* Ids given by --ignore, parsed.
CliIgnoreIds == {ParseId(cmd.ignore[i]).id : i \in 1..Len(cmd.ignore)}

\* Ids the run is told to ignore, by either source.
ExpectedIgnore == Range(file_config.ignore) \cup CliIgnoreIds

\* The filters the run is told to use: the command line's, else the file's.
ExpectedArch ==
  IF cmd.target_arch # None THEN cmd.target_arch ELSE file_config.target_arch
ExpectedOs ==
  IF cmd.target_os # None THEN cmd.target_os ELSE file_config.target_os

HasUnparsableIgnore == \E i \in 1..Len(cmd.ignore) : ~ParseId(cmd.ignore[i]).ok

ToleranceOff == ~file_config.allow_stale /\ ~cmd.stale
FetchDisabled == file_config.no_fetch \/ cmd.no_fetch

Blocking ==
  {m \in matches :
     \E a \in records : a.id = m.advisory /\ a.category = "vulnerability"}

\* C1: after override_config the ignore collection is the set union of the
\* file's ids and the command line's ids, and every id occurs in it exactly
\* once.
C1_IgnoreIsDuplicateFreeUnion ==
  config # None =>
    /\ Range(Cfg.ignore) = ExpectedIgnore
    /\ IsInjective(Cfg.ignore)

\* C2: no_fetch, allow_stale and quiet in the returned configuration are the
\* logical OR of the file's value and the command line's flag.
C2_BooleansAreOr ==
  config # None =>
    /\ Cfg.no_fetch = (file_config.no_fetch \/ cmd.no_fetch)
    /\ Cfg.allow_stale = (file_config.allow_stale \/ cmd.stale)
    /\ Cfg.quiet = (file_config.quiet \/ cmd.quiet)

C2_Witness ==
  /\ config # None
  /\ file_config.no_fetch /\ ~cmd.no_fetch
  /\ ~file_config.allow_stale /\ cmd.stale
  /\ file_config.quiet /\ ~cmd.quiet

\* C3: a valued option given on the command line (--db, --url, --target-arch,
\* --target-os, --color, --json) decides the field of the returned
\* configuration, whatever the file held.
C3_CliValueOverrides ==
  config # None =>
    /\ cmd.db # None => Cfg.advisory_db_path = Some(PathBufFrom(cmd.db[1]))
    /\ cmd.url # None => Cfg.advisory_db_url = cmd.url
    /\ cmd.target_arch # None => Cfg.target_arch = cmd.target_arch
    /\ cmd.target_os # None => Cfg.target_os = cmd.target_os
    /\ cmd.color # None => Cfg.color = cmd.color
    /\ cmd.output_json => Cfg.output_format = Json

C3_Witness ==
  /\ config # None
  /\ cmd.db # None /\ file_config.advisory_db_path # None
  /\ cmd.url # None /\ file_config.advisory_db_url \notin {None, cmd.url}
  /\ cmd.color # None /\ file_config.color \notin {None, cmd.color}
  /\ cmd.output_json /\ file_config.output_format = Terminal

C3_WitnessFilters ==
  /\ config # None
  /\ cmd.target_arch # None /\ file_config.target_arch \notin {None, cmd.target_arch}
  /\ cmd.target_os # None /\ file_config.target_os \notin {None, cmd.target_os}

\* C4: with an --ignore value that does not parse, the process ends in
\* override_config with a configuration error and a nonzero code: no merged
\* configuration exists, and no database open, fetch, lockfile parse or
\* matching step is ever performed.
C4_UnparsableIgnoreIsFatal ==
  HasUnparsableIgnore =>
    /\ pc \in {"boot", "exited"}
    /\ config = None
    /\ steps = {}
    /\ lockfile_path = None /\ records = {} /\ matches = {} /\ report = None
    /\ pc = "exited" =>
         /\ error = Some("ConfigurationError")
         /\ exit_code # None /\ exit_code[1] # 0

C4_Witness ==
  /\ pc = "exited"
  /\ Len(cmd.ignore) = 2
  /\ ParseId(cmd.ignore[1]).ok /\ ~ParseId(cmd.ignore[2]).ok
  /\ file_config.ignore # <<>>

\* C5: the matcher reports Match(d, a) exactly when the names agree, the
\* version is affected and not in an unaffected/patched sub-range, the
\* advisory is not withdrawn, its id is not ignored, and on each of arch and
\* os no filter is set, or the advisory has no constraint, or the constraint
\* contains the filter value.
C5_MatchIff ==
  "match" \in steps =>
    \A d \in Range(LockfileDependencies), a \in records :
      ([dependency |-> d, advisory |-> a.id] \in matches)
      <=> /\ d.name = a.package
          /\ \E clause \in a.affected.affected :
               \A b \in clause : Satisfies(d.version, b)
          /\ \A clause \in a.affected.unaffected :
               \E b \in clause : ~Satisfies(d.version, b)
          /\ a.withdrawn = None
          /\ a.id \notin ExpectedIgnore
          /\ \/ ExpectedArch = None
             \/ a.arch_constraint = None
             \/ ExpectedArch[1] \in a.arch_constraint[1]
          /\ \/ ExpectedOs = None
             \/ a.os_constraint = None
             \/ ExpectedOs[1] \in a.os_constraint[1]

\* The file's arch filter is in force (no --target-arch) and keeps an
\* advisory out that an ignored id and a patched version do not.
C5_Witness ==
  /\ "match" \in steps
  /\ cmd.target_arch = None /\ file_config.target_arch = Some("arm")
  /\ cmd.target_os = Some("linux")
  /\ cmd.ignore # <<>>
  /\ \E m \in matches : m.advisory = Id("RUSTSEC-2020-0006")
  /\ \A m \in matches : m.advisory # Id("RUSTSEC-2020-0002")

\* C6: once the process has exited, a fatal error or a blocking match means a
\* nonzero code, and an audit that exits with 0 has built a report whose
\* blocking collection is empty; informational findings do not count.
C6_ExitCode ==
  pc = "exited" =>
    /\ exit_code # None
    /\ error # None => exit_code[1] # 0
    /\ report # None =>
         /\ report[1].vulnerabilities = Blocking
         /\ exit_code[1] = 0 <=> Blocking = {}
    /\ (exit_code[1] = 0 /\ lockfile_path # None) =>
         report # None /\ Blocking = {}
    /\ (error = None /\ lockfile_path # None) => report # None

\* A clean exit with informational findings only.
C6_Witness ==
  /\ pc = "exited"
  /\ report # None
  /\ exit_code = Some(0)
  /\ matches # {}

C6_WitnessFatal ==
  /\ pc = "exited"
  /\ error = Some("ConfigurationError")

\* C7: once the database is open with tolerance off and a HEAD commit older
\* than the threshold, the run can only end with Stale: the lockfile is not
\* parsed, the matcher does not run and no report is built.
C7_StaleFailsBeforeParse ==
  (ToleranceOff /\ "open" \in steps /\ mirror[1] > StaleThresholdDays) =>
    /\ pc \in {"freshness", "exited"}
    /\ pc = "exited" =>
         /\ error = Some("Stale")
         /\ exit_code # None /\ exit_code[1] # 0
    /\ steps \cap {"load", "lockfile_parse", "match", "report"} = {}
    /\ records = {} /\ matches = {} /\ report = None

C7_Witness ==
  /\ ToleranceOff
  /\ cmd.no_fetch
  /\ mirror = Some(120)
  /\ pc = "exited"
  /\ error = Some("Stale")

\* C8: with fetching disabled, no step performs a network operation or
\* changes the mirror, and opening an absent mirror ends the run with
\* NotFound.
C8_NoFetchNoNetwork ==
  [][FetchDisabled =>
       /\ mirror' = mirror
       /\ steps' \cap {"network", "mirror_write"} = {}
       /\ (pc = "open" /\ mirror = None) =>
            pc' = "exited" /\ error' = Some("NotFound")]_vars

C8_Witness ==
  /\ file_config.no_fetch /\ ~cmd.no_fetch
  /\ mirror = None
  /\ error = Some("NotFound")

C8_WitnessStale ==
  /\ FetchDisabled
  /\ mirror = Some(120)
  /\ "freshness" \in steps

\* What the run yields for a command line and a configuration file, over
\* the records at hand: the matches and the exit code.
Outcome(c, f) ==
  LET r  == OverrideConfig(c, f)
      ms == FindMatches(LockfileDependencies, records,
                        Range(r.config[1].ignore), r.config[1].target_arch,
                        r.config[1].target_os)
  IN  [matches |-> ms,
       code |-> ExitDisposition(
                  BuildReport(BlockingMatches(records, ms),
                              InformationalFindings(records, ms)))]

RECURSIVE IdStrings(_)
IdStrings(ids) ==
  IF ids = <<>> THEN <<>> ELSE <<Head(ids).string>> \o IdStrings(Tail(ids))

RECURSIVE ParsedIds(_)
ParsedIds(strs) ==
  IF strs = <<>> THEN <<>>
  ELSE <<ParseId(Head(strs)).id>> \o ParsedIds(Tail(strs))

\* C9: no match is left for an ignored id, whichever source named it; the
\* matches and the exit code are those of the run with the two sources
\* exchanged, with every id in both sources, and with every id given twice.
C9_IgnoreSourceIrrelevant ==
  "report" \in steps =>
    LET swapped_cmd  == [cmd EXCEPT !.ignore = IdStrings(file_config.ignore)]
        swapped_file == [file_config EXCEPT !.ignore = ParsedIds(cmd.ignore)]
        both_cmd     == [cmd EXCEPT !.ignore = @ \o IdStrings(file_config.ignore)]
        both_file    == [file_config EXCEPT !.ignore = @ \o ParsedIds(cmd.ignore)]
        twice_cmd    == [cmd EXCEPT !.ignore = @ \o @]
        twice_file   == [file_config EXCEPT !.ignore = @ \o @]
        here         == [matches |-> matches, code |-> exit_code[1]]
    IN  /\ \A m \in matches : m.advisory \notin ExpectedIgnore
        /\ Outcome(swapped_cmd, swapped_file) = here
        /\ Outcome(both_cmd, both_file) = here
        /\ Outcome(twice_cmd, file_config) = here
        /\ Outcome(cmd, twice_file) = here

\* Two different ids, one from each source, each of which would match.
C9_Witness ==
  /\ "report" \in steps
  /\ cmd.ignore = <<"RUSTSEC-2020-0002">>
  /\ file_config.ignore = <<Id("RUSTSEC-2020-0001")>>
  /\ cmd.target_arch = None /\ file_config.target_arch = None
  /\ exit_code = Some(0)

\* C10: a field changes only when its option is given; with no option given
\* the returned configuration is the file's, ignore list included.
NoOverrideOption ==
  /\ cmd.color = None /\ cmd.db = None /\ cmd.url = None
  /\ cmd.target_arch = None /\ cmd.target_os = None
  /\ cmd.ignore = <<>>
  /\ ~cmd.no_fetch /\ ~cmd.stale /\ ~cmd.quiet /\ ~cmd.output_json

C10_AbsentOptionKeepsField ==
  config # None =>
    /\ cmd.color = None => Cfg.color = file_config.color
    /\ cmd.db = None => Cfg.advisory_db_path = file_config.advisory_db_path
    /\ cmd.url = None => Cfg.advisory_db_url = file_config.advisory_db_url
    /\ cmd.target_arch = None => Cfg.target_arch = file_config.target_arch
    /\ cmd.target_os = None => Cfg.target_os = file_config.target_os
    /\ ~cmd.output_json => Cfg.output_format = file_config.output_format
    /\ NoOverrideOption => Cfg = file_config

C10_Witness ==
  /\ config # None
  /\ NoOverrideOption
  /\ file_config.ignore # <<>>
  /\ file_config.target_arch # None /\ file_config.target_os # None

C10_WitnessLocation ==
  /\ config # None
  /\ NoOverrideOption
  /\ file_config.color # None /\ file_config.advisory_db_path # None
  /\ file_config.advisory_db_url # None /\ file_config.output_format = Json

====
